---- MODULE Spec2Model ----
(***************************************************************************)
(* A model of scheduler.py: the slot generator (pick_candidate_slots and   *)
(* is_slot_free) and the orchestration flow (run_scheduler_agent).         *)
(*                                                                         *)
(* Datetimes are naive local wall-clock values, as in the source; they are *)
(* modelled as whole minutes since 00:00 of day 0 (day 0 is a Monday).     *)
(* Every candidate the generator builds lies on a whole minute, which is   *)
(* the resolution of isoformat(timespec="minutes").                        *)
(***************************************************************************)
EXTENDS Integers, Sequences, FiniteSets, TLC

VARIABLES
    gin,    \* pick_candidate_slots: its arguments (meeting fields, busy list, max_slots)
    gst,    \* pick_candidate_slots: its locals (position, current_day, loop index, slots)
    pc,                 \* run_scheduler_agent: the step the flow is at
    auto_send,          \* run_scheduler_agent: the auto flag
    calendar_service,   \* whether get_calendar_service() returned a service
    disk,               \* the contact store file
    contacts,           \* ContactMemory.contacts
    meeting,            \* the parsed meeting object
    scheduling_mode,    \* the local scheduling_mode
    matching_events,    \* cancel flow: the events search_events returned
    selected_event,     \* cancel flow: the event picked for deletion
    slots,              \* proposal flow: the candidate slots
    busy_notice,        \* what pick_candidate_slots printed about the calendar
    calls,              \* the prompts answered and the external calls made, in order
    outcome             \* how the flow ended

gvars == <<gin, gst>>

ovars == <<pc, auto_send, calendar_service, disk, contacts, meeting, scheduling_mode,
           matching_events, selected_event, slots, busy_notice, calls, outcome>>

vars == <<gin, gst, pc, auto_send, calendar_service, disk, contacts, meeting,
          scheduling_mode, matching_events, selected_event, slots, busy_notice,
          calls, outcome>>

(***************************************************************************)
(* Bounds of the model.                                                    *)
(***************************************************************************)
MaxDay == 4          \* latest_end is drawn from days 0..MaxDay
MaxSlotsArg == 3     \* max_slots is drawn from 0..MaxSlotsArg
MaxSelections == 2   \* the selection prompt is answered at most MaxSelections times

MaxUpserts == 2      \* add_contact is called at most MaxUpserts times on one store

(***************************************************************************)
(* Program constants.                                                      *)
(***************************************************************************)
MinutesPerDay == 1440
MinutesPerHour == 60
MorningStart == 9
MorningEnd == 12
AfternoonStart == 13
AfternoonEnd == 17
EveningStart == 17
EveningEnd == 20

\* time_blocks: day-part name -> (start_hour, end_hour)
time_blocks ==
    [morning   |-> <<MorningStart, MorningEnd>>,
     afternoon |-> <<AfternoonStart, AfternoonEnd>>,
     evening   |-> <<EveningStart, EveningEnd>>]

(***************************************************************************)
(* datetime helpers.                                                       *)
(***************************************************************************)
\* datetime.date(): the calendar day of a datetime
DateOf(t) == t \div MinutesPerDay

\* dt.datetime.combine(day, dt.time(hour, 0))
Combine(day, hour) == day * MinutesPerDay + hour * MinutesPerHour

\* datetime.isoformat(timespec="minutes"): 'YYYY-MM-DDTHH:MM', held as its fields
IsoFormat(t) ==
    [date   |-> t \div MinutesPerDay,
     hour   |-> (t % MinutesPerDay) \div MinutesPerHour,
     minute |-> t % MinutesPerHour]

\* dt.datetime.fromisoformat of such a string
FromIsoFormat(s) == s.date * MinutesPerDay + s.hour * MinutesPerHour + s.minute

(***************************************************************************)
(* is_slot_free.                                                           *)
(***************************************************************************)
\* A faulty overlap test: a closed-interval comparison
OverlapsClosed(slot_start, slot_end, busy) ==
    slot_start <= busy.end /\ slot_end >= busy.start

\* The overlap test of one slot against one busy period
Overlaps(slot_start, slot_end, busy) ==
    slot_start < busy.end /\ slot_end > busy.start

RECURSIVE is_slot_free(_, _, _)
\* Walks busy_times from its head and returns False at the first overlap
is_slot_free(slot_start, slot_end, busy_times) ==
    IF busy_times = <<>> THEN TRUE
    ELSE IF Overlaps(slot_start, slot_end, Head(busy_times)) THEN FALSE
    ELSE is_slot_free(slot_start, slot_end, Tail(busy_times))

(***************************************************************************)
(* pick_candidate_slots.                                                   *)
(***************************************************************************)
DefaultDayParts == <<"morning", "afternoon">>

\* A faulty day-part order: a fixed chronological priority
PreferredChronological(in) ==
    LET p == IF in.preferred_times_of_day = <<>> THEN DefaultDayParts
             ELSE in.preferred_times_of_day
    IN  SelectSeq(<<"morning", "afternoon", "evening">>,
                  LAMBDA n : \E k \in 1..Len(p) : p[k] = n)

\* preferred = meeting.get("preferred_times_of_day") or ["morning", "afternoon"]
Preferred(in) ==
    IF in.preferred_times_of_day = <<>> THEN DefaultDayParts
    ELSE in.preferred_times_of_day

\* A faulty window test: the end of the candidate is not compared
InWindowStartOnly(in, candidate_start, candidate_end) ==
    ~(candidate_start < in.earliest_start)

\* The two window tests: neither `continue` is taken
InWindow(in, candidate_start, candidate_end) ==
    ~(candidate_start < in.earliest_start) /\ ~(candidate_end > in.latest_end)

\* A faulty busy test: the calendar is never consulted
BusyRejectsNever(in, candidate_start, candidate_end) == FALSE

\* if busy_times and not is_slot_free(...): continue
BusyRejects(in, candidate_start, candidate_end) ==
    in.busy_times /= <<>>
    /\ ~is_slot_free(candidate_start, candidate_end, in.busy_times)

\* A faulty break: the inner loop is never left early
BreakNever(accepted, max_slots) == FALSE

\* if len(slots) >= max_slots: break
BreakAfterAppend(accepted, max_slots) == Len(accepted) >= max_slots

\* A faulty start: every day-part is anchored at the morning hour
CandidateStartMorning(day, tod) == Combine(day, MorningStart)

\* candidate_start = combine(current_day, time(start_hour, 0))
CandidateStart(day, tod) == Combine(day, time_blocks[tod][1])

\* A faulty day step: the day is left as it is
NextDaySame(day) == day

\* current_day += dt.timedelta(days=1)
NextDay(day) == day + 1

\* The state of the function when its loop is entered
SlotsEntry(in) ==
    [pc          |-> "while",
     current_day |-> DateOf(in.earliest_start),
     i           |-> 1,
     slots       |-> <<>>]

\* while current_day <= last_day and len(slots) < max_slots
WhileStep(in, st) ==
    IF st.current_day <= DateOf(in.latest_end) /\ Len(st.slots) < in.max_slots
    THEN [st EXCEPT !.pc = "for", !.i = 1]
    ELSE [st EXCEPT !.pc = "done"]

\* One iteration of `for tod in preferred`, or its end and current_day += 1
ForStep(in, st) ==
    LET preferred == Preferred(in)
        nextTod   == [st EXCEPT !.i = @ + 1]
        nextDay   == [st EXCEPT !.pc = "while", !.current_day = NextDay(@)]
    IN  IF st.i > Len(preferred) THEN nextDay
        ELSE LET tod == preferred[st.i] IN
             IF tod \notin DOMAIN time_blocks THEN nextTod
             ELSE LET candidate_start == CandidateStart(st.current_day, tod)
                      candidate_end   == candidate_start + in.duration_minutes
                      appended == Append(st.slots,
                                         [start |-> IsoFormat(candidate_start),
                                          end   |-> IsoFormat(candidate_end)])
                  IN  IF ~InWindow(in, candidate_start, candidate_end) THEN nextTod
                      ELSE IF BusyRejects(in, candidate_start, candidate_end) THEN nextTod
                      ELSE IF BreakAfterAppend(appended, in.max_slots)
                           THEN [nextDay EXCEPT !.slots = appended]
                           ELSE [nextTod EXCEPT !.slots = appended]

RECURSIVE RunSlots(_, _)
\* The loop run to its end: the list pick_candidate_slots returns
RunSlots(in, st) ==
    IF st.pc = "done" THEN st.slots
    ELSE IF st.pc = "while" THEN RunSlots(in, WhileStep(in, st))
    ELSE RunSlots(in, ForStep(in, st))

pick_candidate_slots(in) == RunSlots(in, SlotsEntry(in))

(***************************************************************************)
(* The inputs the slot generator is run on.                                *)
(***************************************************************************)
At(day, hour, minute) == day * MinutesPerDay + hour * MinutesPerHour + minute

EarliestChoices == {At(0, 0, 0), At(0, 9, 0), At(0, 9, 10), At(1, 13, 0)}

LatestChoices ==
    {At(d, h, 0) : d \in 0..MaxDay, h \in {10, 18}} \cup {At(MaxDay, 23, 59)}

DurationChoices == {30, 60, 300}

DayPartChoices ==
    {<<>>, <<"morning">>, <<"evening", "morning">>,
     <<"morning", "afternoon", "evening">>, <<"night">>, <<"night", "afternoon">>}

Busy(s, e) == [start |-> s, end |-> e]

BusyChoices ==
    {<<>>,
     <<Busy(At(0, 8, 0), At(0, 9, 0))>>,
     <<Busy(At(0, 9, 30), At(0, 10, 0)), Busy(At(1, 9, 15), At(1, 9, 20))>>,
     <<Busy(At(0, 13, 0), At(1, 13, 30)), Busy(At(0, 8, 0), At(0, 9, 0))>>}

SlotInputs ==
    [earliest_start : EarliestChoices,
     latest_end : LatestChoices,
     duration_minutes : DurationChoices,
     preferred_times_of_day : DayPartChoices,
     busy_times : BusyChoices,
     max_slots : 0..MaxSlotsArg]

(***************************************************************************)
(* Strings.  A str is a sequence of one-character strings; None is a value *)
(* that is no str.                                                         *)
(***************************************************************************)
None == <<"None">>

\* Python truthiness of an optional str
Truthy(s) == s /= None /\ s /= <<>>

LowerChar(c) ==
    CASE c = "A" -> "a"
      [] c = "B" -> "b"
      [] c = "L" -> "l"
      [] c = "Q" -> "q"
      [] c = "S" -> "s"
      [] c = "Y" -> "y"
      [] OTHER -> c

RECURSIVE Lower(_)
\* str.lower()
Lower(s) == IF s = <<>> THEN <<>> ELSE <<LowerChar(Head(s))>> \o Lower(Tail(s))

RECURSIVE LStrip(_)
LStrip(s) == IF s /= <<>> /\ Head(s) = " " THEN LStrip(Tail(s)) ELSE s

RECURSIVE RStrip(_)
RStrip(s) ==
    IF s /= <<>> /\ s[Len(s)] = " " THEN RStrip(SubSeq(s, 1, Len(s) - 1)) ELSE s

\* str.strip()
Strip(s) == RStrip(LStrip(s))

\* sub in s
Contains(sub, s) ==
    \E k \in 1..(Len(s) - Len(sub) + 1) : SubSeq(s, k, k + Len(sub) - 1) = sub

Digits == [c \in {"0", "1", "2", "3", "4", "5", "6", "7", "8", "9"} |->
             CASE c = "0" -> 0 [] c = "1" -> 1 [] c = "2" -> 2 [] c = "3" -> 3
               [] c = "4" -> 4 [] c = "5" -> 5 [] c = "6" -> 6 [] c = "7" -> 7
               [] c = "8" -> 8 [] c = "9" -> 9]

\* Whether int(s) succeeds on a stripped str (it raises ValueError otherwise)
IsInt(s) == s /= <<>> /\ \A k \in 1..Len(s) : s[k] \in DOMAIN Digits

RECURSIVE IntOf(_)
\* int(s)
IntOf(s) == IF s = <<>> THEN 0 ELSE 10 * IntOf(SubSeq(s, 1, Len(s) - 1)) + Digits[s[Len(s)]]

(***************************************************************************)
(* ContactMemory.                                                          *)
(***************************************************************************)
EmptyTable == [k \in {} |-> <<>>]

\* _load: a missing file, a file that is not JSON and a file that cannot be
\* opened give {}
Load(file) == IF file.state = "ok" THEN file.table ELSE EmptyTable

\* _load raises on a file whose bytes are not UTF-8: UnicodeDecodeError is
\* neither json.JSONDecodeError nor IOError
LoadRaises(file) == file.state = "undecodable"

\* save: the whole table is written to the file
Save(table) == [state |-> "ok", table |-> table]

\* The file a save() cut short by a crash leaves: open(..., "w") has emptied
\* it and the dump is incomplete
TruncatedFile == [state |-> "corrupt", table |-> EmptyTable]

\* What the file may hold after a crash during add_contact, which was writing
\* `table` over `old`: the crash came before the open, during the dump or
\* after it
SaveInterrupted(old, table) == {old, TruncatedFile, Save(table)}

\* A faulty lookup: the name is used as the key as typed
get_email_exact(table, name) ==
    IF name \in DOMAIN table THEN table[name] ELSE None

\* get_email
get_email(table, name) ==
    LET key == Lower(Strip(name))
    IN  IF key \in DOMAIN table THEN table[key] ELSE None

\* self.contacts[key] = email.strip()
Put(table, name, email) ==
    LET key == Lower(Strip(name))
    IN  [k \in DOMAIN table \cup {key} |-> IF k = key THEN Strip(email) ELSE table[k]]

\* A faulty add_contact: empty arguments are stored like any other
add_contact_unchecked(cm, name, email) ==
    [contacts |-> Put(cm.contacts, name, email),
     disk     |-> Save(Put(cm.contacts, name, email)),
     writes   |-> cm.writes + 1]

\* add_contact on a memory [contacts, disk, writes]: no-op on an empty name or email
add_contact(cm, name, email) ==
    IF ~Truthy(name) \/ ~Truthy(email) THEN cm
    ELSE [contacts |-> Put(cm.contacts, name, email),
          disk     |-> Save(Put(cm.contacts, name, email)),
          writes   |-> cm.writes + 1]

\* A faulty learning loop: nothing is saved
LearnNothing(cm, attendee) == cm

\* A faulty learning loop: the contact is saved whether it is known or not
LearnAlways(cm, attendee) ==
    IF Truthy(attendee.name) /\ Truthy(attendee.email)
    THEN add_contact(cm, attendee.name, attendee.email)
    ELSE cm

\* The body of the attendee-learning loop of run_scheduler_agent for one attendee
LearnOne(cm, attendee) ==
    IF Truthy(attendee.name) /\ Truthy(attendee.email)
    THEN LET existing == get_email(cm.contacts, attendee.name)
         IN  IF ~Truthy(existing) THEN add_contact(cm, attendee.name, attendee.email)
             ELSE IF existing /= attendee.email
                  THEN add_contact(cm, attendee.name, attendee.email)
                  ELSE cm
    ELSE cm

RECURSIVE LearnAll(_, _)
\* for attendee in meeting.get("attendees", [])
LearnAll(cm, attendees) ==
    IF attendees = <<>> THEN cm
    ELSE LearnAll(LearnOne(cm, Head(attendees)), Tail(attendees))

(***************************************************************************)
(* search_events: the filter over the events the provider lists.           *)
(***************************************************************************)
\* attendee_name in attendee_email or attendee_name in attendee_display
PersonMatches(attendee_name, person) ==
    \/ Contains(attendee_name, Lower(person.email))
    \/ Contains(attendee_name, Lower(person.displayName))

\* A faulty name test: only the attendee list is looked at, name or no name
AttendeeMatchListOnly(criteria, event) ==
    LET attendee_name ==
            Lower(IF Truthy(criteria.attendee_name) THEN criteria.attendee_name ELSE <<>>)
    IN  \E k \in 1..Len(event.attendees) :
            PersonMatches(attendee_name, event.attendees[k])

\* attendee_match: the name in an attendee, the summary or the organizer
AttendeeMatch(criteria, event) ==
    LET attendee_name ==
            Lower(IF Truthy(criteria.attendee_name) THEN criteria.attendee_name ELSE <<>>)
    IN  IF attendee_name /= <<>>
        THEN \/ \E k \in 1..Len(event.attendees) :
                    PersonMatches(attendee_name, event.attendees[k])
             \/ Contains(attendee_name, Lower(event.summary))
             \/ PersonMatches(attendee_name, event.organizer)
        ELSE TRUE

\* A faulty keyword test: the keyword is compared as typed
SubjectMatchCaseSensitive(criteria, event) ==
    LET subject_keywords == criteria.subject_keywords
    IN  IF subject_keywords /= <<>>
        THEN \E k \in 1..Len(subject_keywords) :
                 Contains(subject_keywords[k], event.summary)
        ELSE TRUE

\* subject_match: any keyword in the lower-cased summary
SubjectMatch(criteria, event) ==
    LET subject_keywords == criteria.subject_keywords
    IN  IF subject_keywords /= <<>>
        THEN \E k \in 1..Len(subject_keywords) :
                 Contains(Lower(subject_keywords[k]), Lower(event.summary))
        ELSE TRUE

\* The matching events, in the provider's order
FilterEvents(criteria, events) ==
    SelectSeq(events, LAMBDA e : AttendeeMatch(criteria, e) /\ SubjectMatch(criteria, e))

(***************************************************************************)
(* The inputs of one run of run_scheduler_agent.                           *)
(***************************************************************************)
NoTime == -1          \* a datetime field that is null

DefaultMaxSlots == 3  \* pick_candidate_slots(..., max_slots: int = 3)

Attendee(n, e) == [name |-> n, email |-> e]

AttendeeChoices ==
    {<<>>,
     <<Attendee(<<"A", "l">>, <<"a", "@", "x">>)>>,
     <<Attendee(<<"B">>, None)>>,
     <<Attendee(<<" ", "a", "L">>, <<"b", "@", "x">>), Attendee(<<"B">>, None)>>,
     <<Attendee(None, <<"c", "@", "x">>)>>,
     <<Attendee(<<"A", "l">>, <<" ", "a", "@", "x">>)>>,
     <<Attendee(<<"A", "l">>, <<"a", "@", "x">>), Attendee(<<"a", "l", " ">>, <<"b", "@", "x">>)>>}

\* (earliest_start, latest_end) as the classifier may give them
WindowChoices ==
    {<<NoTime, NoTime>>,
     <<At(0, 0, 0), At(4, 18, 0)>>,
     <<At(0, 10, 0), At(0, 12, 0)>>,
     <<At(0, 12, 0), At(0, 10, 0)>>}

\* cancel_criteria: an object, null, or a key the classifier left out
NoCriteria == [kind |-> "missing", attendee_name |-> None, subject_keywords |-> <<>>]

NullCriteria == [kind |-> "null", attendee_name |-> None, subject_keywords |-> <<>>]

Criteria(n, kw) == [kind |-> "object", attendee_name |-> n, subject_keywords |-> kw]

CriteriaChoices ==
    {NoCriteria,
     NullCriteria,
     Criteria(None, <<>>),
     Criteria(<<"A", "l">>, <<>>),
     Criteria(None, <<<<"S", "y">>>>),
     Criteria(<<"z">>, <<>>),
     Criteria(<<"A", "l">>, <<<<"x">>, <<"S", "y">>>>)}

Meeting(mode, exact, window, attendees, criteria) ==
    [scheduling_mode |-> mode,
     exact_time |-> exact,
     earliest_start |-> window[1],
     latest_end |-> window[2],
     duration_minutes |-> 30,
     preferred_times_of_day |-> <<>>,
     attendees |-> attendees,
     cancel_criteria |-> criteria]

MeetingChoices ==
    {Meeting(m, x, w, a, NoCriteria) :
        m \in {"direct", "proposal", "reschedule"}, x \in {NoTime, At(1, 14, 0)},
        w \in WindowChoices, a \in AttendeeChoices}
    \cup
    {Meeting("cancel", NoTime, <<NoTime, NoTime>>, a, c) :
        a \in {<<>>, <<Attendee(<<"A", "l">>, <<"a", "@", "x">>)>>}, c \in CriteriaChoices}

Person(e, n) == [email |-> e, displayName |-> n]

Event(id, summary, attendees, organizer) ==
    [id |-> id, summary |-> summary, attendees |-> attendees, organizer |-> organizer]

Me == Person(<<"m", "@", "x">>, <<"M">>)

\* What service.events().list(...) may return for the search window
ProviderEventChoices ==
    {<<>>,
     <<Event(1, <<"S", "y", "n", "c">>, <<Person(<<"a", "@", "x">>, <<"A", "l">>)>>, Me)>>,
     <<Event(1, <<"S", "y", "n", "c">>, <<Person(<<"a", "@", "x">>, <<"A", "l">>)>>, Me),
       Event(2, <<"a", "l">>, <<>>, Me),
       Event(3, <<"s", "y">>, <<Person(<<>>, <<"B">>)>>, Person(<<"a", "l", "@">>, <<>>))>>}

\* What the freebusy query may return for the window
ProviderBusyChoices ==
    {<<>>,
     <<Busy(At(0, 8, 0), At(0, 9, 30))>>,
     <<Busy(At(0, 0, 0), At(5, 0, 0))>>}

ContactFileChoices ==
    {[state |-> "missing", table |-> EmptyTable],
     [state |-> "corrupt", table |-> EmptyTable],
     [state |-> "undecodable", table |-> EmptyTable],
     [state |-> "ok", table |-> [k \in {<<"a", "l">>} |-> <<"a", "@", "x">>]],
     [state |-> "ok", table |-> [k \in {<<"b">>} |-> <<"d", "@", "x">>]]}

\* What the user may type at a [y/N] prompt
AnswerChoices == {<<"y">>, <<" ", "Y">>, <<"n">>, <<>>, <<"y", "e", "s">>}

\* What the user may type at the selection prompt (before .strip())
SelectionChoices == {<<"q">>, <<"Q", " ">>, <<"1">>, <<"3">>, <<"0">>, <<"1", "2">>, <<"x">>}

(***************************************************************************)
(* run_scheduler_agent.                                                    *)
(***************************************************************************)
\* One entry of the record of prompts answered and external calls made
Call(op) == [op |-> op, arg |-> <<>>, id |-> 0, to |-> <<>>]

GateCall(answer) == [op |-> "gate", arg |-> answer, id |-> 0, to |-> <<>>]

SelectCall(typed) == [op |-> "select", arg |-> typed, id |-> 0, to |-> <<>>]

DeleteCall(op, id) == [op |-> op, arg |-> <<>>, id |-> id, to |-> <<>>]

SendCall(op, to) == [op |-> op, arg |-> <<>>, id |-> 0, to |-> to]

\* A search call and the events the provider listed for it
SearchCall(op, listed) == [op |-> op, arg |-> listed, id |-> 0, to |-> <<>>]

\* A draft call and the slot lines its prompt carries
DraftCall(op, slot_lines) == [op |-> op, arg |-> slot_lines, id |-> 0, to |-> <<>>]

\* The line given to the drafting prompt when there is no slot
NoSlotsLine == [text |-> "- (No slots found, but suggest that in the email.)"]

\* One line of the prompt: the day of the start ('%a, %b %d') and the two times
\* of day ('%H:%M'); the day of the end is not printed
SlotLine(s) ==
    [date  |-> DateOf(FromIsoFormat(s.start)),
     start |-> FromIsoFormat(s.start) % MinutesPerDay,
     end   |-> FromIsoFormat(s.end) % MinutesPerDay]

\* A faulty formatter: no line at all when there is no slot
format_slots_plain(candidate_slots) ==
    [k \in 1..Len(candidate_slots) |-> SlotLine(candidate_slots[k])]

\* "\n".join(lines) if lines else "- (No slots found, ...)"
format_slots_for_prompt(candidate_slots) ==
    LET lines == [k \in 1..Len(candidate_slots) |-> SlotLine(candidate_slots[k])]
    IN  IF lines /= <<>> THEN lines ELSE <<NoSlotsLine>>

RECURSIVE SaveCalls(_)
SaveCalls(n) == IF n = 0 THEN <<>> ELSE <<Call("save")>> \o SaveCalls(n - 1)

\* A faulty recipient list: a missing email is filled in from the contact table
RecipientsResolved(attendees) ==
    LET resolved == [k \in 1..Len(attendees) |->
                        IF Truthy(attendees[k].email) THEN attendees[k].email
                        ELSE IF Truthy(attendees[k].name)
                        THEN get_email(contacts, attendees[k].name)
                        ELSE None]
    IN  SelectSeq(resolved, Truthy)

\* A faulty recipient list: every attendee's email field, null or empty included
RecipientsUnfiltered(attendees) ==
    [k \in 1..Len(attendees) |-> attendees[k].email]

\* [a["email"] for a in attendees if a.get("email")]
Recipients(attendees) ==
    LET kept == SelectSeq(attendees, LAMBDA a : Truthy(a.email))
    IN  [k \in 1..Len(kept) |-> kept[k].email]

\* A faulty answer test: a bare Enter counts as yes
AffirmativeOrEmpty(answer) ==
    Lower(Strip(answer)) = <<"y">> \/ Strip(answer) = <<>>

\* input(...).strip().lower() compared with 'y'
Affirmative(answer) == Lower(Strip(answer)) = <<"y">>

\* if not auto_send: the gate is skipped when the auto flag is set
GateSkipped(auto) == auto

\* A faulty direct flow: the event is created without asking
DirectEntryCreate == "create"

\* The step of the direct flow after the summary is shown: the confirmation
DirectEntry == "direct_gate"

\* A faulty provider test: the flow goes on without a calendar service
ProviderMissingNever(service) == FALSE

\* if not calendar_service: the mode cannot proceed
ProviderMissing(service) == ~service

\* A faulty match test: an empty result is not noticed
NoMatchNever(found) == FALSE

\* if not matching_events: nothing to cancel
NoMatch(found) == found = <<>>

\* A faulty selection: the first listed event is taken whatever was typed
SelectedIndexFirst(idx) == 1

\* selected_event = matching_events[idx - 1] (the list is numbered from 1 here)
SelectedIndex(idx) == idx

\* A faulty single-match test: the only match is not taken automatically
SingleMatchNever(found) == FALSE

\* if len(matching_events) == 1: the only match is selected without a prompt
SingleMatch(found) == Len(found) = 1

\* The step taken when direct mode has no exact_time: the proposal flow
FallbackStep == "slots"

Finish(result) == pc' = "done" /\ outcome' = result

Goto(step) == pc' = step /\ outcome' = outcome

\* A [y/N] prompt at step `here`: on to `next` on yes, the flow ends otherwise
Gate(here, next, refused) ==
    /\ pc = here
    /\ IF GateSkipped(auto_send)
       THEN Goto(next) /\ calls' = calls
       ELSE \E answer \in AnswerChoices :
                /\ calls' = Append(calls, GateCall(answer))
                /\ IF Affirmative(answer) THEN Goto(next) ELSE Finish(refused)

\* The state after contacts = ContactMemory(CONTACTS_FILE) and the calendar
\* connection: the flow is at the classification, or over if _load raised
FlowInit ==
    /\ auto_send \in BOOLEAN
    /\ calendar_service \in BOOLEAN
    /\ disk \in ContactFileChoices
    /\ contacts = Load(disk)
    /\ pc = IF LoadRaises(disk) THEN "done" ELSE "parse"
    /\ meeting = Meeting("none", NoTime, <<NoTime, NoTime>>, <<>>, NoCriteria)
    /\ scheduling_mode = "none"
    /\ matching_events = <<>>
    /\ selected_event = Event(0, <<>>, <<>>, Person(<<>>, <<>>))
    /\ slots = <<>>
    /\ busy_notice = "none"
    /\ calls = <<>>
    /\ outcome = IF LoadRaises(disk) THEN "crash_load" ELSE "running"

\* meeting = parse_meeting_request(user_instruction, contacts)
Parse ==
    /\ pc = "parse"
    /\ \/ /\ Finish("crash_classification")
          /\ calls' = Append(calls, Call("classify_fail"))
          /\ UNCHANGED meeting
       \/ /\ meeting' \in MeetingChoices
          /\ calls' = Append(calls, Call("classify_ok"))
          /\ Goto("learn")
    /\ UNCHANGED <<auto_send, calendar_service, disk, contacts, scheduling_mode,
                   matching_events, selected_event, slots, busy_notice>>

\* Save any new contacts from the parsed data
Learn ==
    /\ pc = "learn"
    /\ LET cm == LearnAll([contacts |-> contacts, disk |-> disk, writes |-> 0],
                          meeting.attendees)
       IN  /\ contacts' = cm.contacts
           /\ disk' = cm.disk
           /\ calls' = calls \o SaveCalls(cm.writes)
    /\ Goto("dispatch")
    /\ UNCHANGED <<auto_send, calendar_service, meeting, scheduling_mode,
                   matching_events, selected_event, slots, busy_notice>>

\* Determine scheduling mode; the checks made before the first step of a flow
Dispatch ==
    /\ pc = "dispatch"
    /\ IF meeting.scheduling_mode = "cancel"
       THEN /\ scheduling_mode' = "cancel"
            /\ IF ProviderMissing(calendar_service) THEN Finish("provider_unavailable")
               ELSE IF meeting.cancel_criteria.kind = "null" THEN Finish("crash_criteria")
               ELSE Goto("search")
       ELSE IF Recipients(meeting.attendees) = <<>>
       THEN /\ scheduling_mode' = meeting.scheduling_mode
            /\ Finish("no_recipients")
       ELSE IF meeting.scheduling_mode = "direct"
       THEN IF meeting.exact_time = NoTime
            THEN /\ scheduling_mode' = "proposal"
                 /\ Goto(FallbackStep)
            ELSE /\ scheduling_mode' = "direct"
                 /\ IF ProviderMissing(calendar_service) THEN Finish("provider_unavailable")
                    ELSE IF \E k \in 1..Len(meeting.attendees) :
                                meeting.attendees[k].name = None
                    THEN Finish("crash_summary")
                    ELSE Goto(DirectEntry)
       ELSE /\ scheduling_mode' = meeting.scheduling_mode
            /\ Goto("slots")
    /\ UNCHANGED <<auto_send, calendar_service, disk, contacts, meeting,
                   matching_events, selected_event, slots, busy_notice, calls>>

\* matching_events = search_events(...); zero, one or several matches
Search ==
    /\ pc = "search"
    /\ \E listed \in ProviderEventChoices : \E ok \in BOOLEAN :
           LET found == IF ok THEN FilterEvents(meeting.cancel_criteria, listed) ELSE <<>>
           IN  /\ matching_events' = found
               /\ calls' = Append(calls, SearchCall(IF ok THEN "search_ok" ELSE "search_fail",
                                                    listed))
               /\ IF NoMatch(found)
                  THEN Finish("no_match") /\ UNCHANGED selected_event
                  ELSE IF SingleMatch(found)
                  THEN Goto("cancel_gate") /\ selected_event' = found[1]
                  ELSE Goto("select") /\ UNCHANGED selected_event
    /\ UNCHANGED <<auto_send, calendar_service, disk, contacts, meeting,
                   scheduling_mode, slots, busy_notice>>

\* Which event would you like to cancel? [1-n] or 'q' to quit
Select ==
    /\ pc = "select"
    /\ Len(SelectSeq(calls, LAMBDA c : c.op = "select")) < MaxSelections
    /\ \E typed \in SelectionChoices :
           LET selection == Strip(typed) IN
           /\ calls' = Append(calls, SelectCall(typed))
           /\ IF Lower(selection) = <<"q">>
              THEN Finish("quit") /\ UNCHANGED selected_event
              ELSE IF IsInt(selection)
                      /\ 1 <= IntOf(selection)
                      /\ IntOf(selection) <= Len(matching_events)
              THEN Goto("cancel_gate")
                   /\ selected_event' = matching_events[SelectedIndex(IntOf(selection))]
              ELSE Goto("select") /\ UNCHANGED selected_event
    /\ UNCHANGED <<auto_send, calendar_service, disk, contacts, meeting,
                   scheduling_mode, matching_events, slots, busy_notice>>

\* Are you sure you want to DELETE this event? [y/N]
CancelGate ==
    /\ Gate("cancel_gate", "delete", "aborted")
    /\ UNCHANGED <<auto_send, calendar_service, disk, contacts, meeting,
                   scheduling_mode, matching_events, selected_event, slots, busy_notice>>

\* A faulty delete step: the result of the delete is not looked at
AfterDeleteIgnored(success) == "cancel_draft"

\* if not success: return; the step after the delete call
AfterDelete(success) == IF success THEN "cancel_draft" ELSE "done"

\* success = delete_calendar_event(calendar_service, selected_event['id'])
Delete ==
    /\ pc = "delete"
    /\ \E success \in BOOLEAN :
           /\ calls' = Append(calls, DeleteCall(IF success THEN "delete_ok" ELSE "delete_fail",
                                               selected_event.id))
           /\ IF AfterDelete(success) = "done"
              THEN Finish("delete_failed")
              ELSE Goto(AfterDelete(success))
    /\ UNCHANGED <<auto_send, calendar_service, disk, contacts, meeting,
                   scheduling_mode, matching_events, selected_event, slots, busy_notice>>

\* email_body = draft_cancellation_email(selected_event); the recipients of the event
CancelDraft ==
    /\ pc = "cancel_draft"
    /\ \/ /\ calls' = Append(calls, Call("draft_fail"))
          /\ Finish("crash_draft")
       \/ /\ calls' = Append(calls, Call("draft_ok"))
          /\ IF Recipients(selected_event.attendees) = <<>>
             THEN Finish("deleted_no_notification")
             ELSE Goto("cancel_send_gate")
    /\ UNCHANGED <<auto_send, calendar_service, disk, contacts, meeting,
                   scheduling_mode, matching_events, selected_event, slots, busy_notice>>

\* Send this cancellation email to attendees? [y/N]
CancelSendGate ==
    /\ Gate("cancel_send_gate", "cancel_send", "aborted")
    /\ UNCHANGED <<auto_send, calendar_service, disk, contacts, meeting,
                   scheduling_mode, matching_events, selected_event, slots, busy_notice>>

\* A faulty send step: a send that raised is attempted again
AfterSendFailureRetry(here) == here

\* The step after a send that raised: the exception leaves run_scheduler_agent
AfterSendFailure(here) == "done"

\* send_email_smtp(recipients, ...) at step `here`: it returns or raises
Send(here, to) ==
    /\ pc = here
    /\ \/ /\ calls' = Append(calls, SendCall("send_ok", to))
          /\ Finish("sent")
       \/ /\ calls' = Append(calls, SendCall("send_fail", to))
          /\ IF AfterSendFailure(here) = "done"
             THEN Finish("crash_send")
             ELSE Goto(AfterSendFailure(here))

CancelSend ==
    /\ Send("cancel_send", Recipients(selected_event.attendees))
    /\ UNCHANGED <<auto_send, calendar_service, disk, contacts, meeting,
                   scheduling_mode, matching_events, selected_event, slots, busy_notice>>

\* Proceed with creating this event and sending confirmation? [y/N]
DirectGate ==
    /\ Gate("direct_gate", "create", "aborted")
    /\ UNCHANGED <<auto_send, calendar_service, disk, contacts, meeting,
                   scheduling_mode, matching_events, selected_event, slots, busy_notice>>

\* event_details = create_calendar_event(...): details, or None on failure
Create ==
    /\ pc = "create"
    /\ \/ /\ calls' = Append(calls, Call("create_ok"))
          /\ Goto("direct_draft")
       \/ /\ calls' = Append(calls, Call("create_fail"))
          /\ Finish("create_failed")
    /\ UNCHANGED <<auto_send, calendar_service, disk, contacts, meeting,
                   scheduling_mode, matching_events, selected_event, slots, busy_notice>>

\* A draft call to the completion service at step `here`, with the slot lines
\* of its prompt: it returns or raises
Draft(here, next, slot_lines) ==
    /\ pc = here
    /\ \/ /\ calls' = Append(calls, DraftCall("draft_ok", slot_lines))
          /\ Goto(next)
       \/ /\ calls' = Append(calls, DraftCall("draft_fail", slot_lines))
          /\ Finish("crash_draft")

DirectDraft ==
    /\ Draft("direct_draft", "direct_send", <<>>)
    /\ UNCHANGED <<auto_send, calendar_service, disk, contacts, meeting,
                   scheduling_mode, matching_events, selected_event, slots, busy_notice>>

DirectSend ==
    /\ Send("direct_send", Recipients(meeting.attendees))
    /\ UNCHANGED <<auto_send, calendar_service, disk, contacts, meeting,
                   scheduling_mode, matching_events, selected_event, slots, busy_notice>>

\* The arguments pick_candidate_slots works on, once the busy list is known
SlotArguments(m, busy) ==
    [earliest_start |-> m.earliest_start,
     latest_end |-> m.latest_end,
     duration_minutes |-> m.duration_minutes,
     preferred_times_of_day |-> m.preferred_times_of_day,
     busy_times |-> busy,
     max_slots |-> DefaultMaxSlots]

\* What pick_candidate_slots prints after get_busy_times returned
BusyNotice(busy) == IF busy /= <<>> THEN "found_busy" ELSE "no_conflicts"

\* slots = pick_candidate_slots(meeting, calendar_service)
Slots ==
    /\ pc = "slots"
    /\ IF meeting.earliest_start = NoTime \/ meeting.latest_end = NoTime
       THEN /\ Finish("crash_window")
            /\ UNCHANGED <<slots, busy_notice, calls>>
       ELSE IF ~calendar_service
       THEN /\ slots' = pick_candidate_slots(SlotArguments(meeting, <<>>))
            /\ busy_notice' = "none"
            /\ calls' = Append(calls, Call("slots"))
            /\ Goto("proposal_draft")
       ELSE \/ \E busy \in ProviderBusyChoices :
                  /\ slots' = pick_candidate_slots(SlotArguments(meeting, busy))
                  /\ busy_notice' = BusyNotice(busy)
                  /\ calls' = calls \o <<Call("busy_ok"), Call("slots")>>
                  /\ Goto("proposal_draft")
            \/ /\ slots' = pick_candidate_slots(SlotArguments(meeting, <<>>))
               /\ busy_notice' = BusyNotice(<<>>)
               /\ calls' = calls \o <<Call("busy_http_error"), Call("slots")>>
               /\ Goto("proposal_draft")
            \/ /\ Finish("crash_busy_query")
               /\ calls' = Append(calls, Call("busy_raise"))
               /\ UNCHANGED <<slots, busy_notice>>
    /\ UNCHANGED <<auto_send, calendar_service, disk, contacts, meeting,
                   scheduling_mode, matching_events, selected_event>>

\* email_body = draft_email(meeting, slots)
ProposalDraft ==
    /\ Draft("proposal_draft", "proposal_gate", format_slots_for_prompt(slots))
    /\ UNCHANGED <<auto_send, calendar_service, disk, contacts, meeting,
                   scheduling_mode, matching_events, selected_event, slots, busy_notice>>

\* Send this proposal email? [y/N]
ProposalGate ==
    /\ Gate("proposal_gate", "proposal_send", "aborted")
    /\ UNCHANGED <<auto_send, calendar_service, disk, contacts, meeting,
                   scheduling_mode, matching_events, selected_event, slots, busy_notice>>

ProposalSend ==
    /\ Send("proposal_send", Recipients(meeting.attendees))
    /\ UNCHANGED <<auto_send, calendar_service, disk, contacts, meeting,
                   scheduling_mode, matching_events, selected_event, slots, busy_notice>>

\* The slot generator's own variables while a flow runs
GeneratorIdle ==
    /\ gin = SlotArguments(Meeting("none", NoTime, <<0, 0>>, <<>>, NoCriteria), <<>>)
    /\ gst = [pc |-> "idle", current_day |-> 0, i |-> 1, slots |-> <<>>]

Init == FlowInit /\ GeneratorIdle

Next ==
    \/ (Parse /\ UNCHANGED gvars)
    \/ (Learn /\ UNCHANGED gvars)
    \/ (Dispatch /\ UNCHANGED gvars)
    \/ (Search /\ UNCHANGED gvars)
    \/ (Select /\ UNCHANGED gvars)
    \/ (CancelGate /\ UNCHANGED gvars)
    \/ (Delete /\ UNCHANGED gvars)
    \/ (CancelDraft /\ UNCHANGED gvars)
    \/ (CancelSendGate /\ UNCHANGED gvars)
    \/ (CancelSend /\ UNCHANGED gvars)
    \/ (DirectGate /\ UNCHANGED gvars)
    \/ (Create /\ UNCHANGED gvars)
    \/ (DirectDraft /\ UNCHANGED gvars)
    \/ (DirectSend /\ UNCHANGED gvars)
    \/ (Slots /\ UNCHANGED gvars)
    \/ (ProposalDraft /\ UNCHANGED gvars)
    \/ (ProposalGate /\ UNCHANGED gvars)
    \/ (ProposalSend /\ UNCHANGED gvars)

Spec == Init /\ [][Next]_vars

\* The flow's variables while the slot generator is run on its own
FlowIdle ==
    /\ pc = "idle"
    /\ auto_send = FALSE
    /\ calendar_service = FALSE
    /\ disk = [state |-> "missing", table |-> EmptyTable]
    /\ contacts = EmptyTable
    /\ meeting = Meeting("none", NoTime, <<NoTime, NoTime>>, <<>>, NoCriteria)
    /\ scheduling_mode = "none"
    /\ matching_events = <<>>
    /\ selected_event = Event(0, <<>>, <<>>, Person(<<>>, <<>>))
    /\ slots = <<>>
    /\ busy_notice = "none"
    /\ calls = <<>>
    /\ outcome = "running"

(***************************************************************************)
(* The slot generator as a state machine.                                  *)
(***************************************************************************)
SlotInit ==
    /\ gin \in SlotInputs
    /\ gst = SlotsEntry(gin)
    /\ FlowIdle

SlotWhile ==
    /\ gst.pc = "while"
    /\ gst' = WhileStep(gin, gst)
    /\ UNCHANGED <<gin, ovars>>

SlotFor ==
    /\ gst.pc = "for"
    /\ gst' = ForStep(gin, gst)
    /\ UNCHANGED <<gin, ovars>>

SlotNext == SlotWhile \/ SlotFor

SlotSpec == SlotInit /\ [][SlotNext]_vars

(***************************************************************************)
(* ContactMemory as a state machine: add_contact calls on one store, a     *)
(* crash during one of them, and the next run loading the file.            *)
(***************************************************************************)
\* The names and emails add_contact may be given
NameChoices == {<<"A", "l">>, <<" ", "a", "L", " ">>, <<"B">>, <<>>, None}

EmailChoices == {<<"a", "@", "x">>, <<" ", "b", "@", "x">>, <<>>, None}

\* An add_contact call with its arguments
StoreCall(op, name, email) == [op |-> op, arg |-> name, id |-> 0, to |-> email]

\* The add_contact calls made so far, completed or not
Upserts == SelectSeq(calls, LAMBDA c : c.op \in {"add_contact", "add_contact_crash"})

\* The variables of the flow and of the slot generator while the store is run
\* on its own
StoreIdle ==
    /\ auto_send = FALSE
    /\ calendar_service = FALSE
    /\ meeting = Meeting("none", NoTime, <<NoTime, NoTime>>, <<>>, NoCriteria)
    /\ scheduling_mode = "none"
    /\ matching_events = <<>>
    /\ selected_event = Event(0, <<>>, <<>>, Person(<<>>, <<>>))
    /\ slots = <<>>
    /\ busy_notice = "none"
    /\ GeneratorIdle

idle_vars == <<auto_send, calendar_service, meeting, scheduling_mode, matching_events,
               selected_event, slots, busy_notice, gin, gst>>

\* ContactMemory(CONTACTS_FILE) on any file
StoreInit ==
    /\ disk \in ContactFileChoices
    /\ contacts = Load(disk)
    /\ pc = IF LoadRaises(disk) THEN "done" ELSE "store"
    /\ outcome = IF LoadRaises(disk) THEN "crash_load" ELSE "running"
    /\ calls = <<>>
    /\ StoreIdle

\* contacts.add_contact(name, email) runs to its end
Upsert ==
    /\ pc = "store"
    /\ Len(Upserts) < MaxUpserts
    /\ \E name \in NameChoices : \E email \in EmailChoices :
           LET cm == add_contact([contacts |-> contacts, disk |-> disk, writes |-> 0],
                                 name, email)
           IN  /\ contacts' = cm.contacts
               /\ disk' = cm.disk
               /\ calls' = Append(calls, StoreCall("add_contact", name, email))
                               \o SaveCalls(cm.writes)
    /\ UNCHANGED <<pc, outcome, idle_vars>>

\* The process dies inside contacts.add_contact(name, email), after the table
\* in memory was updated
UpsertCrash ==
    /\ pc = "store"
    /\ Len(Upserts) < MaxUpserts
    /\ \E name \in NameChoices : \E email \in EmailChoices :
           /\ Truthy(name) /\ Truthy(email)
           /\ contacts' = Put(contacts, name, email)
           /\ disk' \in SaveInterrupted(disk, Put(contacts, name, email))
           /\ calls' = Append(calls, StoreCall("add_contact_crash", name, email))
    /\ pc' = "crashed"
    /\ UNCHANGED <<outcome, idle_vars>>

\* The next run: ContactMemory(CONTACTS_FILE) loads what the crash left
Restart ==
    /\ pc = "crashed"
    /\ contacts' = Load(disk)
    /\ calls' = Append(calls, Call("load"))
    /\ pc' = "store"
    /\ UNCHANGED <<disk, outcome, idle_vars>>

StoreNext == Upsert \/ UpsertCrash \/ Restart

StoreSpec == StoreInit /\ [][StoreNext]_vars

(***************************************************************************)
(* Properties of the slot generator (checked under SlotSpec).              *)
(***************************************************************************)
Returned == gst.pc = "done"

\* A returned slot read back as an interval of datetimes
SlotInterval(s) == [start |-> FromIsoFormat(s.start), end |-> FromIsoFormat(s.end)]

OutputIntervals == {SlotInterval(gst.slots[k]) : k \in 1..Len(gst.slots)}

BusySet == {gin.busy_times[k] : k \in 1..Len(gin.busy_times)}

\* The day-part start hours as the specification states them
StatedStartHour(tod) ==
    CASE tod = "morning" -> 9
      [] tod = "afternoon" -> 13
      [] tod = "evening" -> 17

StatedDayParts == {"morning", "afternoon", "evening"}

RequestedDayParts ==
    IF gin.preferred_times_of_day = <<>> THEN <<"morning", "afternoon">>
    ELSE gin.preferred_times_of_day

\* The single interval of a day-part on a day: [start hour, start + duration]
StatedCandidate(day, tod) ==
    [start |-> day * 1440 + StatedStartHour(tod) * 60,
     end   |-> day * 1440 + StatedStartHour(tod) * 60 + gin.duration_minutes]

PassesWindow(c) == c.start >= gin.earliest_start /\ c.end <= gin.latest_end

PassesBusy(c) == \A b \in BusySet : ~(c.start < b.end /\ c.end > b.start)

RECURSIVE StatedDayCandidates(_, _)
StatedDayCandidates(day, k) ==
    IF k > Len(RequestedDayParts) THEN <<>>
    ELSE LET tod == RequestedDayParts[k] IN
         (IF tod \in StatedDayParts
             /\ PassesWindow(StatedCandidate(day, tod))
             /\ PassesBusy(StatedCandidate(day, tod))
          THEN <<StatedCandidate(day, tod)>> ELSE <<>>)
         \o StatedDayCandidates(day, k + 1)

RECURSIVE StatedCandidatesFrom(_)
StatedCandidatesFrom(day) ==
    IF day > gin.latest_end \div 1440 THEN <<>>
    ELSE StatedDayCandidates(day, 1) \o StatedCandidatesFrom(day + 1)

\* Every kept candidate of the window, days ascending, day-parts in the caller's order
StatedCandidates == StatedCandidatesFrom(gin.earliest_start \div 1440)

FirstN(s, n) == SubSeq(s, 1, IF n < Len(s) THEN n ELSE Len(s))

\* The candidates of the requested day-parts on the days of the window, unfiltered
WindowCandidates ==
    {StatedCandidate(d, RequestedDayParts[k]) :
        <<d, k>> \in {x \in ((gin.earliest_start \div 1440)..(gin.latest_end \div 1440))
                              \X (1..Len(RequestedDayParts)) :
                        RequestedDayParts[x[2]] \in StatedDayParts}}

\* C1: the returned list never has more than max_slots elements, and no
\* candidate is examined once max_slots candidates have been accepted.
C1_AtMostMaxSlots ==
    /\ Len(gst.slots) <= gin.max_slots
    /\ (gst.pc = "for" /\ gst.i <= Len(Preferred(gin)))
           => Len(gst.slots) < gin.max_slots

\* C1 witness: generation stopped with max_slots slots before the day range was exhausted
C1_Witness ==
    /\ Returned
    /\ gin.max_slots > 0
    /\ Len(gst.slots) = gin.max_slots
    /\ Len(StatedCandidates) > gin.max_slots
    /\ gst.current_day <= DateOf(gin.latest_end)

\* C2: no returned slot overlaps a given busy interval
\* (S overlaps B iff S.start < B.end and S.end > B.start).
C2_NoBusyOverlap ==
    \A s \in OutputIntervals : \A b \in BusySet :
        ~(s.start < b.end /\ s.end > b.start)

\* C2 witness: slots were returned although a candidate inside the window was busy
C2_Witness ==
    /\ Returned
    /\ gst.slots /= <<>>
    /\ \E c \in WindowCandidates : PassesWindow(c) /\ ~PassesBusy(c)

\* C3: no returned slot starts before earliest_start or ends after latest_end.
C3_InsideWindow ==
    \A s \in OutputIntervals :
        s.start >= gin.earliest_start /\ s.end <= gin.latest_end

\* C3 witness: slots were returned, one candidate started too early and one ended too late
C3_Witness ==
    /\ Returned
    /\ gst.slots /= <<>>
    /\ \E c \in WindowCandidates : c.start < gin.earliest_start
    /\ \E c \in WindowCandidates : c.start >= gin.earliest_start /\ c.end > gin.latest_end

ScenarioA ==
    [earliest_start |-> 0 * 1440, latest_end |-> 4 * 1440 + 18 * 60,
     duration_minutes |-> 30, preferred_times_of_day |-> <<"morning">>,
     busy_times |-> <<>>, max_slots |-> 3]

ScenarioASlots ==
    <<[start |-> 0 * 1440 + 540, end |-> 0 * 1440 + 570],
      [start |-> 1 * 1440 + 540, end |-> 1 * 1440 + 570],
      [start |-> 2 * 1440 + 540, end |-> 2 * 1440 + 570]>>

\* C4: the output is exactly the first max_slots elements of the sequence of
\* kept candidates (one interval per day and requested day-part, starting at
\* 09:00 / 13:00 / 17:00, filtered by the window test and the busy test); for a
\* Mon-Fri window, 30 minutes, [morning] and no busy interval it is Mon, Tue and
\* Wed 09:00-09:30.
C4_FirstKeptCandidates ==
    Returned =>
        /\ [k \in 1..Len(gst.slots) |-> SlotInterval(gst.slots[k])]
               = FirstN(StatedCandidates, gin.max_slots)
        /\ gin = ScenarioA =>
               [k \in 1..Len(gst.slots) |-> SlotInterval(gst.slots[k])] = ScenarioASlots

\* C4 witness: the Mon-Fri scenario has returned
C4_Witness == Returned /\ gin = ScenarioA /\ Len(gst.slots) = 3

\* Some position of day-part list p holds a known day-part starting at hour h
PositionsOf(p, h) ==
    {k \in 1..Len(p) : p[k] \in StatedDayParts /\ StatedStartHour(p[k]) = h}

\* C5: the output is ordered by day ascending and, within a day, by the
\* position of the day-part in the caller's list, not by time of day.
C5_DayThenCallerOrder ==
    \A k \in 1..Len(gst.slots) : \A l \in 1..Len(gst.slots) :
        k < l =>
            \/ gst.slots[k].start.date < gst.slots[l].start.date
            \/ /\ gst.slots[k].start.date = gst.slots[l].start.date
               /\ \E p \in PositionsOf(RequestedDayParts, gst.slots[k].start.hour) :
                  \E q \in PositionsOf(RequestedDayParts, gst.slots[l].start.hour) :
                      p < q

\* C5 witness: for [evening, morning] a day's evening slot precedes its morning slot
C5_Witness ==
    /\ Returned
    /\ gin.preferred_times_of_day = <<"evening", "morning">>
    /\ Len(gst.slots) >= 2
    /\ gst.slots[1].start.date = gst.slots[2].start.date
    /\ gst.slots[1].start.hour = 17
    /\ gst.slots[2].start.hour = 9

\* The busy list in another order
Reordered(busy, f) == [k \in 1..Len(busy) |-> busy[f[k]]]

ComparedIntervals ==
    BusySet \cup OutputIntervals
        \cup {StatedCandidate(gst.current_day, tod) : tod \in StatedDayParts}

\* C6: overlap(A, B) = overlap(B, A); the free verdict does not depend on the
\* order of the busy list; touching intervals are non-conflicting.
C6_OverlapOrderIndependent ==
    /\ \A a \in ComparedIntervals : \A b \in ComparedIntervals :
           /\ Overlaps(a.start, a.end, b) = Overlaps(b.start, b.end, a)
           /\ a.end = b.start =>
                  ~Overlaps(a.start, a.end, b) /\ ~Overlaps(b.start, b.end, a)
    /\ \A c \in ComparedIntervals : \A f \in Permutations(1..Len(gin.busy_times)) :
           is_slot_free(c.start, c.end, gin.busy_times)
               = is_slot_free(c.start, c.end, Reordered(gin.busy_times, f))

\* C6 witness: a returned slot starts exactly when a busy interval of a longer list ends
C6_Witness ==
    /\ Returned
    /\ Len(gin.busy_times) >= 2
    /\ \E s \in OutputIntervals : \E b \in BusySet : s.start = b.end

(***************************************************************************)
(* Properties of the orchestration flow (checked under Spec).              *)
(***************************************************************************)
Made(op) == \E k \in 1..Len(calls) : calls[k].op = op

\* An answer that reads 'y' once stripped and lower-cased
IsYes(answer) == Lower(Strip(answer)) = <<"y">>

\* The flow ended in an error although no collaborator (completion service,
\* calendar, mail) failed
InternalErrors == {"crash_window", "crash_criteria", "crash_summary", "provider_unavailable"}

\* What the caller of the slot generator can observe of it
Observable == [notice |-> busy_notice, slots |-> slots]

\* What the caller observes of a conflict-checked run that found no busy interval
CheckedEmptyObservable ==
    [notice |-> "no_conflicts",
     slots  |-> pick_candidate_slots(
                    [earliest_start |-> meeting.earliest_start,
                     latest_end |-> meeting.latest_end,
                     duration_minutes |-> meeting.duration_minutes,
                     preferred_times_of_day |-> meeting.preferred_times_of_day,
                     busy_times |-> <<>>,
                     max_slots |-> 3])]

\* Slot generation ran without a usable busy list
Degraded == Made("slots") /\ (~calendar_service \/ Made("busy_http_error"))

\* C7: when the provider is unavailable during slot generation (no provider, or
\* the busy query fails) busy is treated as empty, and the caller can tell the
\* conflict-unaware result from a conflict-checked result with no busy interval.
C7_DegradedModeSignalled ==
    Degraded =>
        /\ slots = CheckedEmptyObservable.slots
        /\ Observable /= CheckedEmptyObservable

SideEffectOps ==
    {"create_ok", "create_fail", "delete_ok", "delete_fail", "send_ok", "send_fail"}

\* C8: with the auto flag off, every create, delete and send is preceded in the
\* flow by a 'y' answer to a confirmation prompt, and any other answer ends the
\* flow with none of these actions after it.
C8_SideEffectsConfirmed ==
    ~auto_send =>
        \A k \in 1..Len(calls) :
            /\ calls[k].op \in SideEffectOps =>
                   \E j \in 1..(k - 1) : calls[j].op = "gate" /\ IsYes(calls[j].arg)
            /\ (calls[k].op = "gate" /\ ~IsYes(calls[k].arg)) =>
                   k = Len(calls) /\ pc = "done"

\* C8 witness: a cancel flow deleted and sent, both after a 'y', with the auto flag off
C8_Witness ==
    /\ ~auto_send
    /\ Made("delete_ok")
    /\ Made("send_ok")
    /\ \E k \in 1..Len(calls) : calls[k].op = "gate" /\ calls[k].arg = <<" ", "Y">>

\* The steps of the direct flow among the calls, by kind, and whether each succeeded
StepKind(op) ==
    CASE op = "gate" -> "gate"
      [] op \in {"create_ok", "create_fail"} -> "create"
      [] op \in {"draft_ok", "draft_fail"} -> "draft"
      [] op \in {"send_ok", "send_fail"} -> "send"
      [] OTHER -> "other"

FlowSteps == SelectSeq(calls, LAMBDA c : StepKind(c.op) /= "other")

StepSucceeded(c) ==
    IF c.op = "gate" THEN IsYes(c.arg) ELSE c.op \in {"create_ok", "draft_ok", "send_ok"}

InDirectFlow == meeting.scheduling_mode = "direct" /\ scheduling_mode = "direct"

\* C9 as stated: in direct mode the confirmation gate lies between drafting and
\* sending, after the event was created and the message drafted.
C9_GateAfterDraft ==
    InDirectFlow =>
        \A k \in 1..Len(calls) :
            calls[k].op = "gate" =>
                \E i \in 1..(k - 1) : \E j \in 1..(k - 1) :
                    i < j /\ calls[i].op = "create_ok" /\ calls[j].op = "draft_ok"

\* C9 amended: in direct mode the steps occur in the order confirmation gate
\* (skipped only when the auto flag is set), create, draft, send, each taken
\* only if the one before succeeded; an abort at the gate creates no event and
\* sends no mail.
C9_GateBeforeCreate ==
    InDirectFlow =>
        LET expected == IF auto_send THEN <<"create", "draft", "send">>
                        ELSE <<"gate", "create", "draft", "send">>
        IN  /\ Len(FlowSteps) <= Len(expected)
            /\ \A k \in 1..Len(FlowSteps) :
                   /\ StepKind(FlowSteps[k].op) = expected[k]
                   /\ k < Len(FlowSteps) => StepSucceeded(FlowSteps[k])

\* C9 witness: a confirmed direct flow that created, drafted and sent
C9_Witness ==
    /\ InDirectFlow
    /\ ~auto_send
    /\ Len(FlowSteps) = 4
    /\ outcome = "sent"

\* C10: a direct request without exact_time goes on to the proposal flow and
\* does not end in a fatal error; no calendar event is created on this path.
C10_FallbackNotFatal ==
    (meeting.scheduling_mode = "direct" /\ meeting.exact_time = NoTime) =>
        /\ pc \notin {"direct_gate", "create", "direct_draft", "direct_send"}
        /\ ~Made("create_ok") /\ ~Made("create_fail")
        /\ outcome \notin InternalErrors

MadeAny(ops) == \E k \in 1..Len(calls) : calls[k].op \in ops

CalendarOps ==
    {"create_ok", "create_fail", "search_ok", "search_fail", "delete_ok", "delete_fail"}

DeleteOps == {"delete_ok", "delete_fail"}

DraftOps == {"draft_ok", "draft_fail"}

SendOps == {"send_ok", "send_fail"}

SlotOps == {"busy_ok", "busy_http_error", "busy_raise", "slots"}

\* The parsed request asks for a mode that cannot proceed without the calendar
NeedsProvider ==
    \/ meeting.scheduling_mode = "cancel"
    \/ meeting.scheduling_mode = "direct" /\ meeting.exact_time /= NoTime

\* No attendee of the parsed request carries an email
NoAttendeeEmail ==
    \A k \in 1..Len(meeting.attendees) : ~Truthy(meeting.attendees[k].email)

\* The parsed request is a scheduling request: any mode but cancel
SchedulingRequest == meeting.scheduling_mode \notin {"none", "cancel"}

\* C11: in cancel mode and in direct mode with exact_time, with no calendar
\* provider connected the flow ends right after dispatch as a reported failure
\* (a direct request without any attendee email ends on the no-recipients
\* report, which is checked first): nothing is created, searched, deleted,
\* drafted or sent.
C11_ProviderUnavailableTerminal ==
    (NeedsProvider /\ ~calendar_service) =>
        /\ ~MadeAny(CalendarOps \cup DraftOps \cup SendOps \cup SlotOps)
        /\ pc \in {"learn", "dispatch", "done"}
        /\ pc = "done" =>
               outcome = IF meeting.scheduling_mode = "direct" /\ NoAttendeeEmail
                         THEN "no_recipients"
                         ELSE "provider_unavailable"

\* C11 witness: a direct request with exact_time and a recipient ended on the
\* provider-unavailable report
C11_Witness ==
    /\ ~calendar_service
    /\ meeting.scheduling_mode = "direct"
    /\ meeting.exact_time /= NoTime
    /\ ~NoAttendeeEmail
    /\ pc = "done"
    /\ outcome = "provider_unavailable"

\* C12: a scheduling request in which no attendee has an email ends right after
\* dispatch on the no-recipients report: no event is created, no slots are
\* generated, nothing is drafted and the mail sender is never called.
C12_NoRecipientsEarlyExit ==
    (SchedulingRequest /\ NoAttendeeEmail) =>
        /\ ~MadeAny(CalendarOps \cup DraftOps \cup SendOps \cup SlotOps \cup {"gate"})
        /\ pc \in {"learn", "dispatch", "done"}
        /\ pc = "done" => outcome = "no_recipients"

\* C12 witness: a request whose attendees are named but have no email, with the
\* calendar connected, ended on the no-recipients report
C12_Witness ==
    /\ SchedulingRequest
    /\ meeting.attendees /= <<>>
    /\ NoAttendeeEmail
    /\ calendar_service
    /\ pc = "done"
    /\ outcome = "no_recipients"

\* C13: in cancel mode, when the search returns zero events the flow ends on the
\* no-match report: no selection prompt, no confirmation prompt, no deletion, no
\* draft and no mail.
C13_NoMatchEndsQuietly ==
    (MadeAny({"search_ok", "search_fail"}) /\ matching_events = <<>>) =>
        /\ pc = "done"
        /\ outcome = "no_match"
        /\ ~MadeAny({"select", "gate"} \cup DeleteOps \cup DraftOps \cup SendOps)

\* C13 witness: a search that succeeded and matched nothing
C13_Witness ==
    /\ Made("search_ok")
    /\ matching_events = <<>>
    /\ pc = "done"
    /\ outcome = "no_match"

\* Every confirmation prompt issued so far was answered 'y' (none is issued
\* when the auto flag is set)
GatesAllYes == \A k \in 1..Len(calls) : calls[k].op = "gate" => IsYes(calls[k].arg)

\* The selected event has an attendee with an email
SelectedHasEmail ==
    \E k \in 1..Len(selected_event.attendees) : Truthy(selected_event.attendees[k].email)

\* The deletion of event `id` succeeded and a send was made after it
DeletedThenSent(id) ==
    \E i \in 1..Len(calls) : \E j \in 1..Len(calls) :
        /\ i < j
        /\ calls[i] = DeleteCall("delete_ok", id)
        /\ calls[j].op \in SendOps

TypedQuit(typed) == Lower(Strip(typed)) = <<"q">>

TypedNumber(typed) == IF IsInt(Strip(typed)) THEN IntOf(Strip(typed)) ELSE 0

TypedValid(typed) ==
    ~TypedQuit(typed) /\ 1 <= TypedNumber(typed) /\ TypedNumber(typed) <= Len(matching_events)

\* C15: when more than one event matches, the flow waits at the selection
\* prompt: it goes on only after a valid selection, an invalid or out-of-range
\* input is followed by the prompt again and by nothing else, 'q' ends the flow
\* with no deletion and no mail, and every delete call names the event selected.
C15_SelectionBlocksDeletion ==
    Len(matching_events) > 1 =>
        /\ (~\E j \in 1..Len(calls) : calls[j].op = "select" /\ TypedValid(calls[j].arg)) =>
               /\ pc \in {"select", "done"}
               /\ pc = "done" => outcome = "quit"
               /\ ~MadeAny({"gate"} \cup DeleteOps \cup DraftOps \cup SendOps)
        /\ \A k \in 1..Len(calls) :
               /\ calls[k].op \in DeleteOps =>
                      \E j \in 1..(k - 1) :
                          /\ calls[j].op = "select"
                          /\ TypedValid(calls[j].arg)
                          /\ calls[k].id = matching_events[TypedNumber(calls[j].arg)].id
               /\ calls[k].op = "select" =>
                      IF TypedQuit(calls[k].arg)
                      THEN k = Len(calls) /\ pc = "done" /\ outcome = "quit"
                      ELSE IF TypedValid(calls[k].arg)
                      THEN /\ selected_event = matching_events[TypedNumber(calls[k].arg)]
                           /\ \A j \in (k + 1)..Len(calls) : calls[j].op /= "select"
                      ELSE IF k = Len(calls)
                      THEN pc = "select" /\ outcome = "running"
                      ELSE calls[k + 1].op = "select"

\* C15 witness: of three matches the third was selected after an out-of-range
\* input, and it was the one deleted
C15_Witness ==
    /\ Len(matching_events) = 3
    /\ \E j \in 1..Len(calls) : calls[j] = SelectCall(<<"0">>)
    /\ \E j \in 1..Len(calls) : calls[j] = SelectCall(<<"3">>)
    /\ \E k \in 1..Len(calls) : calls[k] = DeleteCall("delete_ok", matching_events[3].id)

\* The contact table, in memory and on disk
ContactTable == <<contacts, disk>>

\* C16: a step in which the delete call fails ends the flow there: the failed
\* call is the last call made, nothing was or is drafted or sent, and the
\* contact table in memory and on disk is what it was before the attempt;
\* a flow that has ended takes no further step.
C16_DeleteFailureEndsFlow ==
    [][/\ pc /= "done"
       /\ (pc = "delete" /\ calls' /= calls /\ calls'[Len(calls')].op = "delete_fail") =>
              /\ pc' = "done"
              /\ outcome' = "delete_failed"
              /\ calls' = Append(calls, DeleteCall("delete_fail", selected_event.id))
              /\ ~MadeAny(DraftOps \cup SendOps)
              /\ ContactTable' = ContactTable]_vars

\* C16 witness: the delete of the selected event failed after contacts had been
\* learned from the request
C16_Witness ==
    /\ Made("delete_fail")
    /\ Made("save")
    /\ pc = "done"
    /\ outcome = "delete_failed"

\* C17: in cancel mode, once the selected event is deleted and none of its
\* attendees has an email, the mail sender is not called and the flow ends on
\* the success report 'event deleted, no notification sent'.
C17_NoAttendeeEmailIsSuccess ==
    (Made("delete_ok") /\ ~SelectedHasEmail) =>
        /\ ~MadeAny(SendOps)
        /\ pc = "done" => outcome = "deleted_no_notification"

\* The calls that record a failed step of a flow
FailedStepOps ==
    {"classify_fail", "busy_http_error", "busy_raise", "search_fail", "create_fail",
     "delete_fail"}

\* C18: once a step of the flow has failed (classification, provider
\* unavailable, busy-time or event-search query, event creation, event
\* deletion), no delete call and no send call is made later in that flow.
C18_NoSideEffectAfterFailure ==
    /\ \A k \in 1..Len(calls) :
           calls[k].op \in FailedStepOps =>
               \A j \in (k + 1)..Len(calls) : calls[j].op \notin DeleteOps \cup SendOps
    /\ outcome = "provider_unavailable" => ~MadeAny(DeleteOps \cup SendOps)

\* The external calls by the collaborator operation they invoke
CallKind(op) ==
    CASE op \in {"classify_ok", "classify_fail"} -> "classify"
      [] op \in {"busy_ok", "busy_http_error", "busy_raise"} -> "queryBusy"
      [] op \in {"search_ok", "search_fail"} -> "searchEvents"
      [] op \in {"create_ok", "create_fail"} -> "createEvent"
      [] op \in DeleteOps -> "deleteEvent"
      [] op \in DraftOps -> "draft"
      [] op \in SendOps -> "send"
      [] OTHER -> "none"

\* C19: within one invocation each of createEvent, deleteEvent and send is
\* invoked at most once, no external operation is invoked again once it was
\* invoked (so a failed call is never re-attempted), and no delete is issued in a
\* flow that created an event: after a failed send the event stays booked.
C19_NoRetryNoRollback ==
    /\ \A j \in 1..Len(calls) : \A k \in 1..Len(calls) :
           (j < k /\ CallKind(calls[j].op) /= "none") =>
               CallKind(calls[j].op) /= CallKind(calls[k].op)
    /\ Made("create_ok") => ~MadeAny(DeleteOps)
    /\ Made("send_fail") =>
           /\ pc = "done"
           /\ calls[Len(calls)].op = "send_fail"

\* C19 witness: in direct mode the event was created and the send then failed
C19_Witness ==
    /\ Made("create_ok")
    /\ Made("send_fail")
    /\ pc = "done"
    /\ outcome = "crash_send"

\* The flow is in, or ended in, the proposal steps (slot generation onwards)
InProposalFlow ==
    \/ pc \in {"slots", "proposal_draft", "proposal_gate", "proposal_send"}
    \/ /\ pc = "done"
       /\ scheduling_mode \notin {"none", "cancel", "direct"}
       /\ outcome /= "no_recipients"

\* The request carries both bounds of its window
HasWindow == meeting.earliest_start /= NoTime /\ meeting.latest_end /= NoTime

\* Slot generation returned and found nothing
ZeroSlots == Made("slots") /\ slots = <<>>

\* C20: in a proposal flow over a request with a window, with no calendar
\* provider or with zero slots generated, the flow is not ended by that: it goes
\* on to the draft (whose prompt carries the no-slots line exactly when there is
\* no slot), then the confirmation prompt (unless the auto flag is set), then
\* the send; it ends only on a draft that raised, a refused prompt or the send.
C20_ProposalDegradesNotAborts ==
    (InProposalFlow /\ HasWindow /\ (~calendar_service \/ ZeroSlots)) =>
        LET expected == IF auto_send THEN <<"draft", "send">>
                        ELSE <<"draft", "gate", "send">>
        IN  /\ Len(FlowSteps) <= Len(expected)
            /\ \A k \in 1..Len(FlowSteps) :
                   /\ StepKind(FlowSteps[k].op) = expected[k]
                   /\ k < Len(FlowSteps) => StepSucceeded(FlowSteps[k])
            /\ \A k \in 1..Len(calls) :
                   calls[k].op \in DraftOps =>
                       /\ Made("slots")
                       /\ (calls[k].arg = <<NoSlotsLine>>) <=> (slots = <<>>)
            /\ pc = "done" =>
                   /\ outcome \in {"crash_draft", "aborted", "sent", "crash_send"}
                   /\ outcome = "sent" <=> Len(FlowSteps) = Len(expected) /\ Made("send_ok")

\* C20 witness: with no provider and zero slots the no-slots draft was confirmed
\* and sent
C20_Witness ==
    /\ ~calendar_service
    /\ ~auto_send
    /\ ZeroSlots
    /\ \E k \in 1..Len(calls) : calls[k] = DraftCall("draft_ok", <<NoSlotsLine>>)
    /\ outcome = "sent"

\* Classification succeeded and the learning loop is over
Learned == pc \notin {"parse", "learn"} /\ Made("classify_ok")

\* The attendees of the classified request that have both a name and an email
NamedWithEmail ==
    {k \in 1..Len(meeting.attendees) :
        Truthy(meeting.attendees[k].name) /\ Truthy(meeting.attendees[k].email)}

\* The last attendee of the request that goes by the same normalized name as k
LastNamedLike(k) ==
    CHOOSE j \in NamedWithEmail :
        /\ Lower(Strip(meeting.attendees[j].name)) = Lower(Strip(meeting.attendees[k].name))
        /\ \A i \in NamedWithEmail :
               Lower(Strip(meeting.attendees[i].name)) = Lower(Strip(meeting.attendees[k].name))
                   => i <= j

\* Every write of the contact store comes before any call but the classification
SavesBeforeDispatch ==
    \A k \in 1..Len(calls) :
        calls[k].op = "save" =>
            \A j \in 1..(k - 1) : calls[j].op \in {"classify_ok", "save"}

\* C21 as stated: once classification has succeeded and before dispatch, in
\* every mode and whatever the flow does later, looking up the name of any
\* attendee that has both a name and an email returns that attendee's email.
C21_LearnedEmailReturned ==
    Learned =>
        /\ \A k \in NamedWithEmail :
               get_email(contacts, meeting.attendees[k].name) = meeting.attendees[k].email
        /\ SavesBeforeDispatch

\* C21 amended: once classification has succeeded and before dispatch, in every
\* mode and whatever the flow does later, looking up the name of any attendee
\* that has both a name and an email returns, up to surrounding whitespace, the
\* email of the last attendee of the request with that name (compared trimmed
\* and lower-cased); the store on disk holds the same table.
C21_LearnedLastTrimmedEmail ==
    Learned =>
        /\ \A k \in NamedWithEmail :
               Strip(get_email(contacts, meeting.attendees[k].name))
                   = Strip(meeting.attendees[LastNamedLike(k)].email)
        /\ Load(disk) = contacts
        /\ SavesBeforeDispatch

\* C21 witness: a cancel flow that ended for want of a provider had saved the
\* attendee of the request first
C21_Witness ==
    /\ meeting.scheduling_mode = "cancel"
    /\ outcome = "provider_unavailable"
    /\ Made("save")
    /\ NamedWithEmail /= {}
    /\ get_email(contacts, <<"a", "L">>) = <<"a", "@", "x">>

RECURSIVE NonEmptyEmails(_)
\* The non-empty emails of a list of attendees, in order
NonEmptyEmails(attendees) ==
    IF attendees = <<>> THEN <<>>
    ELSE IF Head(attendees).email = None \/ Len(Head(attendees).email) = 0
    THEN NonEmptyEmails(Tail(attendees))
    ELSE <<Head(attendees).email>> \o NonEmptyEmails(Tail(attendees))

\* An attendee of the request has no email although the contact table maps the
\* attendee's name
KnownOnlyToContacts ==
    \E k \in 1..Len(meeting.attendees) :
        /\ ~Truthy(meeting.attendees[k].email)
        /\ Truthy(meeting.attendees[k].name)
        /\ Truthy(get_email(contacts, meeting.attendees[k].name))

\* C22: in direct and proposal flows every send goes to exactly the non-empty
\* attendee emails of the classified request, in order; an attendee without an
\* email does not end the flow as long as another attendee has one, and no
\* address comes from the contact table.
C22_RecipientsAreRequestEmails ==
    SchedulingRequest =>
        /\ \A k \in 1..Len(calls) :
               calls[k].op \in SendOps => calls[k].to = NonEmptyEmails(meeting.attendees)
        /\ NonEmptyEmails(meeting.attendees) /= <<>> => outcome /= "no_recipients"

\* C22 witness: a mail went to the one attendee with an email while the other,
\* who has none, is known to the contact table
C22_Witness ==
    /\ SchedulingRequest
    /\ Len(meeting.attendees) = 2
    /\ KnownOnlyToContacts
    /\ \E k \in 1..Len(calls) : calls[k] = SendCall("send_ok", <<<<"b", "@", "x">>>>)

\* The events the provider listed for the search of this flow
Listed == LET k == CHOOSE k \in 1..Len(calls) : calls[k].op = "search_ok" IN calls[k].arg

\* The fields of an event in which the attendee name is looked for
StatedNameFields(e) ==
    {e.attendees[k].email : k \in 1..Len(e.attendees)}
        \cup {e.attendees[k].displayName : k \in 1..Len(e.attendees)}
        \cup {e.summary, e.organizer.email, e.organizer.displayName}

StatedNameCondition(c, e) ==
    (c.attendee_name /= None /\ c.attendee_name /= <<>>) =>
        \E field \in StatedNameFields(e) : Contains(Lower(c.attendee_name), Lower(field))

StatedKeywordCondition(c, e) ==
    Len(c.subject_keywords) > 0 =>
        \E k \in 1..Len(c.subject_keywords) :
            Contains(Lower(c.subject_keywords[k]), Lower(e.summary))

RECURSIVE StatedMatches(_, _)
\* The events of a list that satisfy both conditions, in the order of the list
StatedMatches(c, events) ==
    IF events = <<>> THEN <<>>
    ELSE (IF StatedNameCondition(c, Head(events)) /\ StatedKeywordCondition(c, Head(events))
          THEN <<Head(events)>> ELSE <<>>)
         \o StatedMatches(c, Tail(events))

\* C23: the search returns exactly the listed events that satisfy the
\* attendee-name condition (the lower-cased name in an attendee's email or
\* display name, the subject, or the organizer's email or display name; true
\* without a name) and the keyword condition (some keyword in the subject,
\* case-insensitively; true without keywords), in the listed order; with empty
\* criteria it returns every listed event in order.
C23_MatcherReturnsStatedEvents ==
    Made("search_ok") =>
        /\ matching_events = StatedMatches(meeting.cancel_criteria, Listed)
        /\ (~Truthy(meeting.cancel_criteria.attendee_name)
                /\ meeting.cancel_criteria.subject_keywords = <<>>) =>
               matching_events = Listed

\* C23 witness: with a name and keywords, of three listed events the first was
\* returned for its attendee, the third for its organizer, the second not
C23_Witness ==
    /\ Made("search_ok")
    /\ Len(Listed) = 3
    /\ Truthy(meeting.cancel_criteria.attendee_name)
    /\ meeting.cancel_criteria.subject_keywords /= <<>>
    /\ matching_events = <<Listed[1], Listed[3]>>

\* The attendee lists and organizers an event may carry
PersonListChoices ==
    {<<>>, <<Person(<<"a", "@", "x">>, <<"A", "l">>)>>, <<Person(<<>>, <<"S", "y">>)>>}

OrganizerChoices == {Me, Person(<<"s", "y", "@">>, <<>>)}

\* The event lists that agree with `events` on ids and subjects, position by
\* position, and carry any attendees and organizers
SameIdsAndSubjects(events) ==
    {[k \in 1..Len(events) |->
          Event(events[k].id, events[k].summary, people[k][1], people[k][2])] :
        people \in [1..Len(events) -> PersonListChoices \X OrganizerChoices]}

Ids(events) == [k \in 1..Len(events) |-> events[k].id]

\* C24: for criteria with subject keywords and no attendee name, the ids the
\* search selects, and their order, are the same for every event list that
\* agrees with the listed one on ids and subjects, whatever its attendees and
\* organizers.
C24_KeywordsOnlyIgnorePeople ==
    (Made("search_ok")
        /\ ~Truthy(meeting.cancel_criteria.attendee_name)
        /\ meeting.cancel_criteria.subject_keywords /= <<>>) =>
        \A other \in SameIdsAndSubjects(Listed) :
            Ids(FilterEvents(meeting.cancel_criteria, other)) = Ids(matching_events)

\* C24 witness: with the keyword alone, two of three listed events were selected
C24_Witness ==
    /\ Made("search_ok")
    /\ ~Truthy(meeting.cancel_criteria.attendee_name)
    /\ meeting.cancel_criteria.subject_keywords /= <<>>
    /\ Len(Listed) = 3
    /\ Ids(matching_events) = <<1, 3>>

(***************************************************************************)
(* extract_json_from_text.  A text is a sequence of tokens: one token for  *)
(* a fence, " " for any whitespace, the others are single characters.     *)
(***************************************************************************)
\* The three backquotes that open or close a fenced block
Fence == "fence"

\* The double quote of a JSON string literal, written as a single quote here
Quote == "'"

\* text.startswith(fence)
StartsWithFence(text) == text /= <<>> /\ Head(text) = Fence

\* The positions of a token in a text
Positions(token, text) == {k \in 1..Len(text) : text[k] = token}

Least(S) == CHOOSE k \in S : \A j \in S : k <= j

Greatest(S) == CHOOSE k \in S : \A j \in S : j <= k

\* text.split(fence, 1)[1] of a text that holds a fence
AfterFirstFence(text) == SubSeq(text, Least(Positions(Fence, text)) + 1, Len(text))

\* text.split(fence, 1)[0]
BeforeFirstFence(text) ==
    IF Positions(Fence, text) = {} THEN text
    ELSE SubSeq(text, 1, Least(Positions(Fence, text)) - 1)

RECURSIVE LStripChars(_, _)
\* str.lstrip(chars): leading characters are dropped while they are in the set
LStripChars(text, chars) ==
    IF text /= <<>> /\ Head(text) \in chars THEN LStripChars(Tail(text), chars) ELSE text

JsonChars == {"j", "s", "o", "n"}

PythonChars == {"p", "y", "t", "h", "o", "n"}

\* The position after the string literal that starts at i, 0 if there is none
StringEnd(text, i) ==
    IF i <= Len(text) /\ text[i] = Quote
          /\ \E k \in (i + 1)..Len(text) : text[k] = Quote
    THEN Least({k \in (i + 1)..Len(text) : text[k] = Quote}) + 1
    ELSE 0

RECURSIVE ValueEnd(_, _)
\* The position after the JSON value that starts at i, 0 if there is none; a
\* value is a string literal, {} or an object of one member
ValueEnd(text, i) ==
    IF i > Len(text) THEN 0
    ELSE IF text[i] = Quote THEN StringEnd(text, i)
    ELSE IF text[i] /= "{" THEN 0
    ELSE IF i + 1 <= Len(text) /\ text[i + 1] = "}" THEN i + 2
    ELSE LET colon == StringEnd(text, i + 1)
         IN  IF colon = 0 \/ colon > Len(text) \/ text[colon] /= ":" THEN 0
             ELSE LET close == ValueEnd(text, colon + 1)
                  IN  IF close = 0 \/ close > Len(text) \/ text[close] /= "}" THEN 0
                      ELSE close + 1

\* json.loads(text): the value, or JSONDecodeError raised
Loads(text) ==
    LET t == Strip(text)
    IN  IF ValueEnd(t, 1) = Len(t) + 1
        THEN [raised |-> FALSE, value |-> t]
        ELSE [raised |-> TRUE, value |-> <<>>]

\* Remove code fences if present: the text the parse is first tried on
Unfenced(text) ==
    IF StartsWithFence(text)
    THEN LET tagged == AfterFirstFence(text)
             inner == Strip(LStrip(LStripChars(LStripChars(tagged, JsonChars), PythonChars)))
         IN  IF Positions(Fence, inner) /= {} THEN Strip(BeforeFirstFence(inner)) ELSE inner
    ELSE text

\* Fallback: try to find the first {...} block
FirstBlock(text) ==
    LET opens == Positions("{", text)
        closes == Positions("}", text)
    IN  IF opens /= {} /\ closes /= {} /\ Greatest(closes) > Least(opens)
        THEN Loads(SubSeq(text, Least(opens), Greatest(closes)))
        ELSE [raised |-> TRUE, value |-> <<>>]

extract_json_from_text(text) ==
    LET unfenced == Unfenced(Strip(text))
    IN  IF ~Loads(unfenced).raised THEN Loads(unfenced) ELSE FirstBlock(unfenced)

\* The JSON object texts a response may carry
ObjectChoices ==
    {<<"{", "}">>,
     <<"{", Quote, "k", Quote, ":", Quote, "v", Quote, "}">>,
     <<"{", Quote, "k", Quote, ":", "{", Quote, "k", Quote, ":", Quote, Quote, "}", "}">>,
     <<"{", Quote, "k", Quote, ":", Quote, "}", "{", Quote, "}">>,
     <<"{", Quote, "k", Quote, ":", Quote, Fence, Quote, "}">>}

\* The language tags of a fenced block; <<>> is no tag
TagChoices ==
    {<<>>, <<"j", "s", "o", "n">>, <<"p", "y", "t", "h", "o", "n">>, <<"j", "a", "v", "a">>}

\* The commentary before and after the block; <<>> is none
CommentaryChoices == {<<>>, <<"h", "i">>, <<"s", "o", "n">>, <<"{", "x", "}">>}

\* A response: the object in a fenced block with a tag, commentary around it
Fenced(lead, tag, object, trail) ==
    (IF lead = <<>> THEN <<>> ELSE lead \o <<" ">>)
        \o <<Fence>> \o tag \o <<" ">> \o object \o <<" ", Fence>>
        \o (IF trail = <<>> THEN <<>> ELSE <<" ">> \o trail)

\* The response of the completion service and what it was built from
ResponseCall(text, lead, tag, object, trail) ==
    [op |-> "generate_content", arg |-> text, id |-> 0, to |-> <<>>,
     lead |-> lead, tag |-> tag, object |-> object, trail |-> trail]

\* The return of extract_json_from_text
ExtractCall(result) ==
    [op |-> IF result.raised THEN "extract_raise" ELSE "extract_ok",
     arg |-> result.value, id |-> 0, to |-> <<>>]

\* text = response.text, for a response that is the bare object or the object
\* in a fenced block
RepairInit ==
    /\ \E object \in ObjectChoices :
           \/ calls = <<ResponseCall(<<" ">> \o object \o <<" ">>, <<>>, <<>>, object, <<>>)>>
           \/ \E lead \in CommentaryChoices : \E tag \in TagChoices :
                  \E trail \in CommentaryChoices :
                      calls = <<ResponseCall(Fenced(lead, tag, object, trail),
                                             lead, tag, object, trail)>>
    /\ pc = "extract"
    /\ outcome = "running"
    /\ disk = [state |-> "missing", table |-> EmptyTable]
    /\ contacts = EmptyTable
    /\ StoreIdle

\* data = extract_json_from_text(text)
Extract ==
    /\ pc = "extract"
    /\ LET result == extract_json_from_text(calls[1].arg)
       IN  /\ calls' = Append(calls, ExtractCall(result))
           /\ outcome' = IF result.raised THEN "crash_classification" ELSE "running"
    /\ pc' = "done"
    /\ UNCHANGED <<disk, contacts, idle_vars>>

RepairSpec == RepairInit /\ [][Extract]_vars

(***************************************************************************)
(* Properties of ContactMemory (checked under StoreSpec).                  *)
(***************************************************************************)
\* The last add_contact call ran to its end and nothing was loaded since
LastUpsertCompleted ==
    /\ pc = "store"
    /\ Upserts /= <<>>
    /\ Upserts[Len(Upserts)].op = "add_contact"
    /\ \A k \in 1..Len(calls) :
           calls[k].op = "load" => \E j \in (k + 1)..Len(calls) : calls[j].op = "add_contact"

LastUpsert == Upserts[Len(Upserts)]

NonEmpty(s) == s /= None /\ Len(s) > 0

\* The names that differ from `name` only in letter case or surrounding blanks
Variants(name) == {other \in NameChoices \ {None} : Lower(Strip(other)) = Lower(Strip(name))}

\* C25 as stated: after upsert(name, email) with a non-empty name and a
\* non-empty email, lookup of every case or whitespace variant of the name
\* returns email.
C25_LookupReturnsEmail ==
    (LastUpsertCompleted /\ NonEmpty(LastUpsert.arg) /\ NonEmpty(LastUpsert.to)) =>
        \A other \in Variants(LastUpsert.arg) :
            get_email(contacts, other) = LastUpsert.to

\* C25 amended: after upsert(name, email) with a non-empty name and a non-empty
\* email, lookup of every case or whitespace variant of the name returns email
\* with its surrounding whitespace removed.
C25_LookupReturnsTrimmedEmail ==
    (LastUpsertCompleted /\ NonEmpty(LastUpsert.arg) /\ NonEmpty(LastUpsert.to)) =>
        \A other \in Variants(LastUpsert.arg) :
            get_email(contacts, other) = Strip(LastUpsert.to)

\* C25 witness: 'Al' was upserted and ' aL ' looks it up
C25_Witness ==
    /\ LastUpsertCompleted
    /\ LastUpsert = StoreCall("add_contact", <<"A", "l">>, <<"a", "@", "x">>)
    /\ <<" ", "a", "L", " ">> \in Variants(LastUpsert.arg)
    /\ get_email(contacts, <<" ", "a", "L", " ">>) = <<"a", "@", "x">>

\* C26: an add_contact call with an empty (or null) name or email changes
\* neither the table in memory nor the file, and writes nothing.
C26_EmptyUpsertIsNoOp ==
    [][\A name \in NameChoices : \A email \in EmailChoices :
           (/\ ~NonEmpty(name) \/ ~NonEmpty(email)
            /\ Len(calls') > Len(calls)
            /\ calls'[Len(calls) + 1] = StoreCall("add_contact", name, email)) =>
               /\ contacts' = contacts
               /\ disk' = disk
               /\ calls' = Append(calls, StoreCall("add_contact", name, email))]_vars

\* C26 witness: add_contact with an empty email was called on a store whose
\* file is missing, and the file is still missing
C26_Witness ==
    /\ calls = <<StoreCall("add_contact", <<"B">>, <<>>)>>
    /\ disk.state = "missing"
    /\ contacts = EmptyTable

\* C27: when the process dies during an add_contact call, the table the next
\* run loads from the file still has every mapping the table had before that
\* call, except possibly the one for the name being written.
C27_CrashKeepsEarlierMappings ==
    pc = "crashed" =>
        LET inflight == Lower(Strip(calls[Len(calls)].arg))
        IN  \A key \in (DOMAIN contacts) \ {inflight} :
                /\ key \in DOMAIN Load(disk)
                /\ Load(disk)[key] = contacts[key]

(***************************************************************************)
(* Properties of the orchestration flow, continued (checked under Spec).   *)
(***************************************************************************)
\* C28: when the contact file is missing, corrupt or unreadable, constructing
\* the contact memory does not fail: the table is empty and the flow goes on
\* to the classification.
C28_LoadFailureIsEmptyTable ==
    /\ outcome /= "crash_load"
    /\ (calls = <<>> /\ disk.state /= "ok") =>
           /\ contacts = EmptyTable
           /\ pc = "parse"

(***************************************************************************)
(* Properties of extract_json_from_text (checked under RepairSpec).        *)
(***************************************************************************)
\* The response, and whether it is a fenced block with a language tag
Response == calls[1]

TaggedBlock == Response.arg /= <<" ">> \o Response.object \o <<" ">> /\ Response.tag /= <<>>

\* C29: a response that is a JSON object text in a fenced block with a language
\* tag, with or without commentary before and after, is parsed to the object
\* the text alone is parsed to.
C29_FencedParsesAsBare ==
    (pc = "done" /\ TaggedBlock) =>
        /\ ~Loads(Response.object).raised
        /\ calls[2] = ExtractCall(Loads(Response.object))


(***************************************************************************)
(* Properties of the mode dispatch of run_scheduler_agent.                 *)
(***************************************************************************)
\* The classification named a mode that is none of direct, proposal and cancel
UnknownMode == meeting.scheduling_mode \notin {"none", "direct", "proposal", "cancel"}

\* C30: after a classification whose mode is none of direct, proposal and
\* cancel, no slots are generated, no calendar call is made, nothing is drafted
\* and nothing is sent.
C30_UnknownModeRejected ==
    UnknownMode => ~MadeAny(SlotOps \cup CalendarOps \cup DraftOps \cup SendOps)


\* The request carries a window whose start is not before its end
InvertedWindow == HasWindow /\ meeting.earliest_start >= meeting.latest_end

\* C31: after a proposal classification whose earliest_start is not before its
\* latest_end, no slots are generated, no proposal is drafted and nothing is
\* sent.
C31_InvertedWindowRejected ==
    (meeting.scheduling_mode = "proposal" /\ InvertedWindow) =>
        ~MadeAny(SlotOps \cup DraftOps \cup SendOps)


(***************************************************************************)
(* Properties of the contact store within one invocation.                  *)
(***************************************************************************)
\* The number of times the contact file has been written
Saves == Len(SelectSeq(calls, LAMBDA c : c.op = "save"))

\* Every attendee with a name and an email is mapped to that email
AllMapped ==
    \A k \in NamedWithEmail :
        get_email(contacts, meeting.attendees[k].name) = meeting.attendees[k].email

ContactStoreUnchanged == contacts' = contacts /\ disk' = disk /\ Saves' = Saves

\* C32: no step other than the attendee-learning step changes the contact
\* table in memory or on disk or writes the contact file, and the learning step
\* itself changes and writes nothing when every attendee with a name and an
\* email is already mapped to that email.
C32_OnlyLearningWrites ==
    [][/\ pc /= "learn" => ContactStoreUnchanged
       /\ (pc = "learn" /\ AllMapped) => ContactStoreUnchanged]_vars

\* C32 witness: a request whose attendee was already mapped to its email went
\* through learning without a write and its email was sent
C32_Witness ==
    /\ Made("send_ok")
    /\ NamedWithEmail /= {}
    /\ AllMapped
    /\ Saves = 0


(***************************************************************************)
(* Termination of pick_candidate_slots (checked under SlotSpec).           *)
(***************************************************************************)
FirstDay == DateOf(gin.earliest_start)

LastDay == DateOf(gin.latest_end)

\* The number of dates from earliest_start's to latest_end's, both included
DaysInRange == IF LastDay < FirstDay THEN 0 ELSE LastDay - FirstDay + 1

\* The iterations of the day loop begun so far
DayIterations == (gst.current_day - FirstDay) + (IF gst.pc = "for" THEN 1 ELSE 0)

\* The days the loop may still go through
DaysLeft == IF gst.current_day > LastDay THEN 0 ELSE LastDay - gst.current_day + 1

\* A bound on the steps of the loops still to be taken: a loop test and at
\* most one step per day-part and one to leave the inner loop, for each day
StepsLeft ==
    LET perDay == Len(Preferred(gin)) + 2
    IN  IF gst.pc = "done" THEN 0
        ELSE IF gst.pc = "while" THEN 1 + DaysLeft * perDay
        ELSE (DaysLeft - 1) * perDay + 1 + (perDay - gst.i)

\* Day-part names were requested and none of them is a known one
AllRequestedUnknown ==
    /\ gin.preferred_times_of_day /= <<>>
    /\ \A k \in 1..Len(gin.preferred_times_of_day) :
           gin.preferred_times_of_day[k] \notin StatedDayParts

\* C33: the slot generator terminates for every input: as long as it has not
\* returned it can take a step, and every step lowers a bound on the steps
\* left; every iteration of the day loop moves the day counter forward by one
\* day, so no more iterations are begun than there are dates from
\* earliest_start's to latest_end's; and the list returned is empty when
\* earliest_start's date is after latest_end's, when max_slots is 0, and when
\* day-part names were requested and all of them are unknown.
C33_GeneratorTerminates ==
    /\ [](/\ StepsLeft >= 0
          /\ gst.pc /= "done" => ENABLED SlotNext
          /\ DayIterations <= DaysInRange
          /\ (Returned /\ (FirstDay > LastDay \/ gin.max_slots = 0 \/ AllRequestedUnknown))
                 => gst.slots = <<>>)
    /\ [][/\ StepsLeft' < StepsLeft
          /\ (gst.pc = "for" /\ gst'.pc = "while")
                 => gst'.current_day = gst.current_day + 1
          /\ ~(gst.pc = "for" /\ gst'.pc = "while")
                 => gst'.current_day = gst.current_day]_vars

\* C33 witness: with only an unknown day-part requested, the day loop went
\* through every date of a range of several days and returned an empty list
C33_Witness ==
    /\ Returned
    /\ AllRequestedUnknown
    /\ gin.max_slots > 0
    /\ DaysInRange > 1
    /\ gst.current_day - FirstDay = DaysInRange
    /\ gst.slots = <<>>

====
